---- MODULE Spec2Model ----
(***************************************************************************)
(* A model of generate_license_report.py (LicenseReporter and main).       *)
(*                                                                         *)
(* Text is modelled as a sequence of one-character strings, so that the    *)
(* string operations of the code (strip, lower, startswith, slicing,       *)
(* substring search, regular-expression matching, ordering) are computed   *)
(* character by character as Python computes them.                         *)
(***************************************************************************)
EXTENDS Integers, Sequences, FiniteSets, TLC

VARIABLES
    pc,          \* position of the run (of main, or of one function call)
    fn_in,       \* arguments of the function call under study
    fn_out,      \* its result
    args,        \* main: the parsed command line
    world,       \* the file system and the installed packages the run sees
    settings,    \* main: include_dev, include_optional, runtime_only, exclude_patterns
    report_args, \* the arguments main passes to generate_report
    pending,     \* get_all_dependencies: the discovered files not yet visited
    all_deps,    \* get_all_dependencies: all_deps
    parsed,      \* what each parser call returned, and whether it caught an exception
    report,      \* main: report
    output,      \* main: output
    destination, \* where the output went: "file", "stdout", or "error"
    ret,         \* the value main returns
    exit_code    \* the exit status of the process

callVars == <<fn_in, fn_out>>
runVars == <<args, world, settings, report_args, pending, all_deps, parsed, report,
             output, destination, ret, exit_code>>
vars == <<pc, callVars, runVars>>

-----------------------------------------------------------------------------
(* Bounds of the model *)

MaxNameLen == 3     \* length of a package name drawn for _matches_pattern
MaxPatLen == 3      \* length of an exclude pattern drawn for _matches_pattern
MaxSpecLen == 4     \* length of a dependency spec string drawn for the split
MaxFragments == 2   \* fragments concatenated into a license text
MaxDeps == 2        \* length of a dependency list drawn for filter_dependencies
MaxFiles == 2       \* manifests present in a project drawn for a run of main
MaxLines == 3       \* lines of a file drawn for parse_requirements_txt

-----------------------------------------------------------------------------
(* Text *)

Chars(s) == [i \in 1..Len(s) |-> SubSeq(s, i, i)]

SeqsUpTo(A, n) == UNION {[1..k -> A] : k \in 0..n}

UpperChars == Chars("ABCDEFGHIJKLMNOPQRSTUVWXYZ")
LowerChars == Chars("abcdefghijklmnopqrstuvwxyz")

\* The printable characters the model uses, in code-point order.
AsciiOrder == Chars(" !#*,-.0123456789<=>?ABCDEFGHIJKLMNOPQRSTUVWXYZ_abcdefghijklmnopqrstuvwxyz~")

OrdTable ==
    [c \in {AsciiOrder[i] : i \in DOMAIN AsciiOrder} |->
        CHOOSE i \in DOMAIN AsciiOrder : AsciiOrder[i] = c]

Ord(c) == IF c = "\t" THEN 0 ELSE OrdTable[c]

LowerTable ==
    [c \in {UpperChars[i] : i \in DOMAIN UpperChars} |->
        LowerChars[CHOOSE i \in DOMAIN UpperChars : UpperChars[i] = c]]

\* str.lower() on one character
LowerChar(c) == IF c \in DOMAIN LowerTable THEN LowerTable[c] ELSE c

\* str.lower()
StrLower(s) == [i \in DOMAIN s |-> LowerChar(s[i])]

Whitespace == {" ", "\t"}

RECURSIVE LStrip(_)
LStrip(s) == IF s # <<>> /\ Head(s) \in Whitespace THEN LStrip(Tail(s)) ELSE s

RECURSIVE RStrip(_)
RStrip(s) ==
    IF s # <<>> /\ s[Len(s)] \in Whitespace THEN RStrip(SubSeq(s, 1, Len(s) - 1)) ELSE s

\* str.strip()
Strip(s) == RStrip(LStrip(s))

\* s[n:]
SliceFrom(s, n) == SubSeq(s, n + 1, Len(s))

\* str.startswith(prefix)
StartsWith(s, prefix) ==
    Len(prefix) <= Len(s) /\ SubSeq(s, 1, Len(prefix)) = prefix

\* sub in s
Contains(s, sub) ==
    \E i \in 0..(Len(s) - Len(sub)) : SubSeq(s, i + 1, i + Len(sub)) = sub

\* s < t, as Python orders strings (by code point, a proper prefix first)
StrLess(s, t) ==
    \E i \in 1..(Len(t)) :
        /\ \A j \in 1..(i - 1) : j <= Len(s) /\ s[j] = t[j]
        /\ \/ i = Len(s) + 1
           \/ i <= Len(s) /\ Ord(s[i]) < Ord(t[i])

\* str.replace(c, r) for a one-character c
RECURSIVE Replace(_, _, _)
Replace(s, c, r) ==
    IF s = <<>> THEN <<>>
    ELSE (IF Head(s) = c THEN r ELSE <<Head(s)>>) \o Replace(Tail(s), c, r)

-----------------------------------------------------------------------------
(* _matches_pattern: the pattern is rewritten into a regular expression    *)
(* ('*' -> '.*', then '?' -> '.') and matched with re.match('^...$',       *)
(* name, re.IGNORECASE). Nothing else of the pattern is escaped, so the    *)
(* rewritten text is read as a regular expression: '.' is any character    *)
(* and 'x*' is any run of x.                                               *)

\* one regular-expression atom against one character, under re.IGNORECASE
AtomMatches(atom, ch) ==
    IF atom = "." THEN ch # "\n" ELSE LowerChar(atom) = LowerChar(ch)

\* re.match('^' + regex + '$', s, re.IGNORECASE)
RECURSIVE ReFullMatch(_, _)
ReFullMatch(regex, s) ==
    IF regex = <<>> THEN s = <<>>
    ELSE IF Len(regex) >= 2 /\ regex[2] = "*"
    THEN \/ ReFullMatch(SliceFrom(regex, 2), s)
         \/ s # <<>> /\ AtomMatches(regex[1], Head(s)) /\ ReFullMatch(regex, Tail(s))
    ELSE s # <<>> /\ AtomMatches(regex[1], Head(s)) /\ ReFullMatch(Tail(regex), Tail(s))

RegexOfPattern(pattern) == Replace(Replace(pattern, "*", <<".", "*">>), "?", <<".">>)

MatchesPattern(name, pattern) == ReFullMatch(RegexOfPattern(pattern), name)

-----------------------------------------------------------------------------
(* The (name, version_spec) split of parse_setup_py and                    *)
(* parse_pyproject_toml, and DependencyInfo.__init__                       *)

OperatorChars == {"<", ">", "=", "!"}

\* re.split(r'[<>=!]', package_spec)[0]
RECURSIVE BeforeOperator(_)
BeforeOperator(s) ==
    IF s = <<>> \/ Head(s) \in OperatorChars THEN <<>>
    ELSE <<Head(s)>> \o BeforeOperator(Tail(s))

DependencyInfo(name, version_spec, dep_type) ==
    [name |-> Strip(name), version_spec |-> Strip(version_spec), dep_type |-> dep_type]

SplitSpec(package_spec, dep_type) ==
    LET name == Strip(BeforeOperator(package_spec))
        version_spec == Strip(SliceFrom(package_spec, Len(name)))
    IN DependencyInfo(name, version_spec, dep_type)

-----------------------------------------------------------------------------
(* _requires_attribution *)

attribution_required ==
    <<Chars("mit"), Chars("bsd"), Chars("apache"), Chars("isc"), Chars("mpl"),
      Chars("mozilla"), Chars("creative commons"), Chars("cc-by")>>

no_attribution == <<Chars("public domain"), Chars("unlicense"), Chars("wtfpl")>>

\* a variant that consults the attribution-required list first
RequiresAttribution_RequiredFirst(license_text) ==
    LET license_lower == StrLower(license_text)
    IN IF \E i \in DOMAIN attribution_required :
              Contains(license_lower, attribution_required[i])
       THEN TRUE
       ELSE ~ \E i \in DOMAIN no_attribution : Contains(license_lower, no_attribution[i])

RequiresAttribution(license_text) ==
    LET license_lower == StrLower(license_text)
    IN IF \E i \in DOMAIN no_attribution : Contains(license_lower, no_attribution[i])
       THEN FALSE
       ELSE IF \E i \in DOMAIN attribution_required :
                   Contains(license_lower, attribution_required[i])
       THEN TRUE
       ELSE TRUE

-----------------------------------------------------------------------------
(* LicenseReporter.__init__: the fixed denylists *)

StrSet(S) == {Chars(s) : s \in S}

build_time_packages ==
    StrSet({"pip", "setuptools", "wheel", "build", "twine", "virtualenv", "venv",
            "pyinstaller", "pytest", "mypy", "black", "flake8", "isort", "coverage",
            "tox", "pre-commit", "sphinx", "mkdocs", "jupyter", "notebook",
            "ipython", "ipykernel", "conda", "mamba", "poetry", "pipenv", "flit",
            "hatch", "pdm", "bandit", "safety", "autopep8", "yapf", "pylint",
            "pydocstyle", "pycodestyle", "pyflakes", "mccabe"})

type_stub_packages ==
    StrSet({"types-", "typing-extensions", "mypy-extensions", "stub-"})

test_packages ==
    StrSet({"pytest", "unittest2", "nose", "nose2", "testtools", "mock",
            "pytest-cov", "pytest-xdist", "pytest-mock", "factory-boy",
            "faker", "hypothesis", "tox", "coverage", "codecov"})

-----------------------------------------------------------------------------
(* filter_dependencies *)

\* a variant without the test-package rule
FilterKeep_NoTestRule(dep, include_dev, include_optional, runtime_only, exclude_patterns) ==
    /\ ~ \E i \in DOMAIN exclude_patterns : MatchesPattern(dep.name, exclude_patterns[i])
    /\ ~ (runtime_only /\ dep.dep_type # "runtime")
    /\ ~ (~include_dev /\ dep.dep_type = "dev")
    /\ ~ (~include_optional /\ dep.dep_type = "optional")
    /\ ~ (runtime_only /\ StrLower(dep.name) \in build_time_packages)
    /\ ~ (runtime_only /\ \E stub \in type_stub_packages : StartsWith(dep.name, stub))

\* a variant without the runtime-only group rule
FilterKeep_NoRuntimeGroupRule(dep, include_dev, include_optional, runtime_only, exclude_patterns) ==
    /\ ~ \E i \in DOMAIN exclude_patterns : MatchesPattern(dep.name, exclude_patterns[i])
    /\ ~ (~include_dev /\ dep.dep_type = "dev")
    /\ ~ (~include_optional /\ dep.dep_type = "optional")
    /\ ~ (runtime_only /\ StrLower(dep.name) \in build_time_packages)
    /\ ~ (runtime_only /\ \E stub \in type_stub_packages : StartsWith(dep.name, stub))
    /\ ~ (runtime_only /\ StrLower(dep.name) \in test_packages)

\* the body of the loop: TRUE when no continue is taken and dep is appended
\* a variant that excludes a name only when every pattern matches it
FilterKeep_AllPatterns(dep, include_dev, include_optional, runtime_only, exclude_patterns) ==
    /\ ~ \A i \in DOMAIN exclude_patterns : MatchesPattern(dep.name, exclude_patterns[i])
    /\ ~ (runtime_only /\ dep.dep_type # "runtime")
    /\ ~ (~include_dev /\ dep.dep_type = "dev")
    /\ ~ (~include_optional /\ dep.dep_type = "optional")
    /\ ~ (runtime_only /\ StrLower(dep.name) \in build_time_packages)
    /\ ~ (runtime_only /\ \E stub \in type_stub_packages : StartsWith(dep.name, stub))
    /\ ~ (runtime_only /\ StrLower(dep.name) \in test_packages)

FilterKeep(dep, include_dev, include_optional, runtime_only, exclude_patterns) ==
    /\ ~ \E i \in DOMAIN exclude_patterns : MatchesPattern(dep.name, exclude_patterns[i])
    /\ ~ (runtime_only /\ dep.dep_type # "runtime")
    /\ ~ (~include_dev /\ dep.dep_type = "dev")
    /\ ~ (~include_optional /\ dep.dep_type = "optional")
    /\ ~ (runtime_only /\ StrLower(dep.name) \in build_time_packages)
    /\ ~ (runtime_only /\ \E stub \in type_stub_packages : StartsWith(dep.name, stub))
    /\ ~ (runtime_only /\ StrLower(dep.name) \in test_packages)

\* a variant that keeps only the first dependency of each name
FilterDependencies_Dedup(dependencies, include_dev, include_optional, runtime_only, exclude_patterns) ==
    LET kept == SelectSeq([i \in DOMAIN dependencies |-> i],
                          LAMBDA i : /\ FilterKeep(dependencies[i], include_dev,
                                                   include_optional, runtime_only,
                                                   exclude_patterns)
                                     /\ \A j \in 1..(i - 1) :
                                           dependencies[j].name # dependencies[i].name)
    IN [k \in DOMAIN kept |-> dependencies[kept[k]]]

FilterDependencies(dependencies, include_dev, include_optional, runtime_only, exclude_patterns) ==
    SelectSeq(dependencies,
              LAMBDA dep : FilterKeep(dep, include_dev, include_optional,
                                      runtime_only, exclude_patterns))

-----------------------------------------------------------------------------
(* Manifests. A manifest's content is modelled by what the parser reads    *)
(* from it:                                                                *)
(*   a requirements file  - its lines, and the number of lines the file    *)
(*                          iterator yields before it raises (NoFailure    *)
(*                          when it never raises; 0 when open() raises);   *)
(*   setup.py             - whether it can be read, and the quoted strings *)
(*                          the two textual scans find;                    *)
(*   pyproject.toml       - whether toml.load decodes it, and the decoded  *)
(*                          tables.                                        *)

NoFailure == -1

S(str) == Chars(str)

EndsWith(s, suffix) ==
    Len(suffix) <= Len(s) /\ SubSeq(s, Len(s) - Len(suffix) + 1, Len(s)) = suffix

\* a variant that puts every requirements file in the runtime group
DetermineDepTypeFromFilename_AlwaysRuntime(filename) == "runtime"

\* _determine_dep_type_from_filename
DetermineDepTypeFromFilename(filename) ==
    LET filename_lower == StrLower(S(filename))
    IN IF Contains(filename_lower, S("dev")) \/ Contains(filename_lower, S("development"))
       THEN "dev"
       ELSE IF Contains(filename_lower, S("test")) \/ Contains(filename_lower, S("testing"))
       THEN "dev"
       ELSE IF Contains(filename_lower, S("doc")) \/ Contains(filename_lower, S("docs"))
       THEN "dev"
       ELSE "runtime"

\* the character class [a-zA-Z0-9_.-]
NameChars ==
    {UpperChars[i] : i \in DOMAIN UpperChars} \cup {LowerChars[i] : i \in DOMAIN LowerChars}
    \cup {"0", "1", "2", "3", "4", "5", "6", "7", "8", "9", "_", ".", "-"}

\* group(1) of re.match(r'^([a-zA-Z0-9_.-]+)(.*)$', line): the longest run
RECURSIVE NamePrefix(_)
NamePrefix(line) ==
    IF line = <<>> \/ Head(line) \notin NameChars THEN <<>>
    ELSE <<Head(line)>> \o NamePrefix(Tail(line))

\* a variant without the test that skips the lines of pip options
RequirementOfLine_KeepsOptions(raw_line, filename) ==
    LET line == Strip(raw_line)
        name == NamePrefix(line)
    IN IF line = <<>> \/ StartsWith(line, S("#")) THEN <<>>
       ELSE IF name = <<>> THEN <<>>
       ELSE <<DependencyInfo(name, SliceFrom(line, Len(name)),
                             DetermineDepTypeFromFilename(filename))>>

\* one iteration of the loop of parse_requirements_txt: the dependencies
\* (none or one) it appends for a raw line
RequirementOfLine(raw_line, filename) ==
    LET line == Strip(raw_line)
        name == NamePrefix(line)
    IN IF line = <<>> \/ StartsWith(line, S("#")) THEN <<>>
       ELSE IF StartsWith(line, S("-")) THEN <<>>
       ELSE IF name = <<>> THEN <<>>
       ELSE <<DependencyInfo(name, SliceFrom(line, Len(name)),
                             DetermineDepTypeFromFilename(filename))>>

RECURSIVE RequirementsOfLines(_, _)
RequirementsOfLines(lines, filename) ==
    IF lines = <<>> THEN <<>>
    ELSE RequirementOfLine(Head(lines), filename) \o RequirementsOfLines(Tail(lines), filename)

\* parse_requirements_txt: an exception leaves the loop, and the list built
\* so far is returned after the warning. [deps, raised]
ParseRequirementsTxt(content, filename) ==
    LET read == IF content.fail_after = NoFailure THEN Len(content.lines)
                ELSE content.fail_after
    IN [deps |-> RequirementsOfLines(SubSeq(content.lines, 1, read), filename),
        raised |-> content.fail_after # NoFailure]

RECURSIVE SplitAll(_, _)
SplitAll(specs, dep_type) ==
    IF specs = <<>> THEN <<>>
    ELSE <<SplitSpec(Head(specs), dep_type)>> \o SplitAll(Tail(specs), dep_type)

HasVersionOperator(package_spec) ==
    \E i \in DOMAIN package_spec : package_spec[i] \in {"=", ">", "<"}

\* parse_setup_py: the file is read whole before anything is appended
ParseSetupPy(content) ==
    IF ~content.readable THEN [deps |-> <<>>, raised |-> TRUE]
    ELSE [deps |-> (IF content.has_install_requires
                    THEN SplitAll(content.install_requires, "runtime") ELSE <<>>)
                   \o (IF content.has_extras_require
                       THEN SplitAll(SelectSeq(content.extras_require, HasVersionOperator),
                                     "optional")
                       ELSE <<>>),
          raised |-> FALSE]

\* The appends parse_pyproject_toml makes, in order, each with whether the
\* statement raises instead ([ok, dep]); the first that raises ends the scan.
SpecSteps(items, dep_type) ==
    [i \in DOMAIN items |->
        IF items[i].is_str THEN [ok |-> TRUE, dep |-> SplitSpec(items[i].text, dep_type)]
        ELSE [ok |-> FALSE, dep |-> DependencyInfo(<<>>, <<>>, dep_type)]]

RECURSIVE OptionalSteps(_)
OptionalSteps(groups) ==
    IF groups = <<>> THEN <<>>
    ELSE SpecSteps(Head(groups).deps,
                   IF Head(groups).group_name \in {"dev", "test", "docs"}
                   THEN "dev" ELSE "optional")
         \o OptionalSteps(Tail(groups))

PoetrySteps(table, dep_type, skip_python) ==
    LET kept == SelectSeq(table, LAMBDA e : ~(skip_python /\ e.name = S("python")))
    IN [i \in DOMAIN kept |->
           [ok |-> TRUE,
            dep |-> DependencyInfo(kept[i].name,
                                   IF kept[i].spec_is_dict THEN <<>> ELSE kept[i].spec,
                                   dep_type)]]

PyprojectSteps(data) ==
    (IF "dependencies" \in data.project_keys
     THEN SpecSteps(data.dependencies, "runtime") ELSE <<>>)
    \o (IF "optional-dependencies" \in data.project_keys
        THEN (IF data.optional_is_table THEN OptionalSteps(data.optional_dependencies)
              ELSE <<[ok |-> FALSE, dep |-> DependencyInfo(<<>>, <<>>, "optional")]>>)
        ELSE <<>>)
    \o (IF "dependencies" \in data.poetry_keys
        THEN PoetrySteps(data.poetry_dependencies, "runtime", TRUE) ELSE <<>>)
    \o (IF "dev-dependencies" \in data.poetry_keys
        THEN PoetrySteps(data.poetry_dev_dependencies, "dev", FALSE) ELSE <<>>)

\* parse_pyproject_toml
ParsePyprojectToml(content, toml_available) ==
    IF ~toml_available THEN [deps |-> <<>>, raised |-> FALSE]
    ELSE IF ~content.decodable THEN [deps |-> <<>>, raised |-> TRUE]
    ELSE LET steps == PyprojectSteps(content.data)
             bad == {i \in DOMAIN steps : ~steps[i].ok}
             done == IF bad = {} THEN Len(steps)
                     ELSE (CHOOSE i \in bad : \A j \in bad : i <= j) - 1
         IN [deps |-> [i \in 1..done |-> steps[i].dep], raised |-> bad # {}]

-----------------------------------------------------------------------------
(* discover_dependency_files, get_package_info, _detect_project_name       *)

\* the candidates, in the order the dict is built and iterated
CandidateNames ==
    <<"requirements.txt", "setup.py", "setup.cfg", "pyproject.toml", "Pipfile",
      "environment.yml", "environment.yaml", "conda.yml", "requirements-dev.txt",
      "dev-requirements.txt", "test-requirements.txt">>

\* a variant that leaves out the candidates no parser reads
DiscoverDependencyFiles_ParsedOnly(w) ==
    SelectSeq(CandidateNames,
              LAMBDA name : /\ name \in DOMAIN w.files
                            /\ \/ EndsWith(S(name), S(".txt"))
                               \/ name \in {"setup.py", "pyproject.toml"})

\* the names of the candidates that exist, in candidate order
DiscoverDependencyFiles(w) ==
    SelectSeq(CandidateNames, LAMBDA name : name \in DOMAIN w.files)

\* line.split(':', 1)[1].strip()
RECURSIVE AfterFirstColon(_)
AfterFirstColon(line) ==
    IF line = <<>> THEN <<>>
    ELSE IF Head(line) = ":" THEN Tail(line)
    ELSE AfterFirstColon(Tail(line))

\* the loop over the lines of METADATA
RECURSIVE ReadMetadata(_, _)
ReadMetadata(lines, info) ==
    IF lines = <<>> THEN info
    ELSE LET line == Head(lines)
             value == Strip(AfterFirstColon(line))
         IN ReadMetadata(Tail(lines),
                IF StartsWith(line, S("License:")) THEN [info EXCEPT !.license = value]
                ELSE IF StartsWith(line, S("Author:")) THEN [info EXCEPT !.author = value]
                ELSE IF StartsWith(line, S("Home-page:")) THEN [info EXCEPT !.homepage = value]
                ELSE info)

\* a variant that keeps the conservative default instead of applying the policy
GetPackageInfo_KeepDefault(package_name, installed) ==
    LET defaults == [name |-> package_name, version |-> S("unknown"),
                     license |-> S("unknown"), author |-> S("unknown"),
                     homepage |-> S("unknown"), requires_attribution |-> TRUE]
    IN IF package_name \in DOMAIN installed
       THEN ReadMetadata(installed[package_name].metadata,
                         [defaults EXCEPT !.version = installed[package_name].version])
       ELSE defaults

\* get_package_info; a package that is not installed (get_distribution
\* raises) keeps the "unknown" defaults
GetPackageInfo(package_name, installed) ==
    LET defaults == [name |-> package_name, version |-> S("unknown"),
                     license |-> S("unknown"), author |-> S("unknown"),
                     homepage |-> S("unknown"), requires_attribution |-> TRUE]
        info == IF package_name \in DOMAIN installed
                THEN ReadMetadata(installed[package_name].metadata,
                                  [defaults EXCEPT !.version = installed[package_name].version])
                ELSE defaults
    IN [info EXCEPT !.requires_attribution = RequiresAttribution(info.license)]

\* a variant that tries setup.py before pyproject.toml
DetectProjectName_SetupFirst(w) ==
    LET pyproject == w.files["pyproject.toml"]
        setup == w.files["setup.py"]
    IN IF "setup.py" \in DOMAIN w.files /\ setup.readable /\ setup.has_name
       THEN setup.name
       ELSE IF "pyproject.toml" \in DOMAIN w.files /\ w.toml_available /\ pyproject.decodable
                /\ "name" \in pyproject.data.project_keys
       THEN pyproject.data.project_name
       ELSE IF "pyproject.toml" \in DOMAIN w.files /\ w.toml_available /\ pyproject.decodable
                /\ "name" \in pyproject.data.poetry_keys
       THEN pyproject.data.poetry_name
       ELSE w.dir_name

\* _detect_project_name
DetectProjectName(w) ==
    LET pyproject == w.files["pyproject.toml"]
        setup == w.files["setup.py"]
        from_pyproject ==
            IF "pyproject.toml" \in DOMAIN w.files /\ w.toml_available /\ pyproject.decodable
            THEN IF "name" \in pyproject.data.project_keys
                 THEN <<pyproject.data.project_name>>
                 ELSE IF "name" \in pyproject.data.poetry_keys
                 THEN <<pyproject.data.poetry_name>>
                 ELSE <<>>
            ELSE <<>>
        from_setup ==
            IF "setup.py" \in DOMAIN w.files /\ setup.readable /\ setup.has_name
            THEN <<setup.name>> ELSE <<>>
    IN IF from_pyproject # <<>> THEN from_pyproject[1]
       ELSE IF from_setup # <<>> THEN from_setup[1]
       ELSE w.dir_name

-----------------------------------------------------------------------------
(* generate_report *)

\* sorted(..., key=lambda x: x.name.lower()): a stable sort, here by
\* insertion after the last element whose key is not greater
\* a variant that compares the names as written, not lowercased
InsertByName_CaseSensitive(sorted, dep) ==
    LET before == {i \in DOMAIN sorted : ~StrLess(dep.name, sorted[i].name)}
        n == Cardinality(before)
    IN SubSeq(sorted, 1, n) \o <<dep>> \o SubSeq(sorted, n + 1, Len(sorted))

InsertByName(sorted, dep) ==
    LET before == {i \in DOMAIN sorted :
                       ~StrLess(StrLower(dep.name), StrLower(sorted[i].name))}
        n == Cardinality(before)
    IN SubSeq(sorted, 1, n) \o <<dep>> \o SubSeq(sorted, n + 1, Len(sorted))

RECURSIVE SortedByName(_)
SortedByName(deps) ==
    IF deps = <<>> THEN <<>>
    ELSE InsertByName(SortedByName(SubSeq(deps, 1, Len(deps) - 1)), deps[Len(deps)])

ReportType(include_dev, include_optional, runtime_only) ==
    IF runtime_only THEN "Runtime Dependencies (PyInstaller Bundled)"
    ELSE IF include_dev /\ include_optional
    THEN "All Dependencies (Runtime + Development + Optional)"
    ELSE IF include_dev THEN "Runtime + Development Dependencies"
    ELSE "Runtime Dependencies"

EmptySummary ==
    [total_packages |-> 0, runtime_packages |-> 0, dev_packages |-> 0,
     optional_packages |-> 0, requires_attribution |-> 0, unknown_licenses |-> 0]

\* a variant whose elif chain counts an optional dependency as a dev one
ProcessDependency_OptionalAsDev(rep, dep, installed) ==
    LET info == GetPackageInfo(dep.name, installed)
        package_info ==
            [name |-> info.name, version |-> info.version, license |-> info.license,
             author |-> info.author, homepage |-> info.homepage,
             requires_attribution |-> info.requires_attribution,
             dependency_type |-> dep.dep_type, version_spec |-> dep.version_spec]
        s1 == rep.summary
        s2 == IF dep.dep_type = "runtime"
              THEN [s1 EXCEPT !.runtime_packages = @ + 1]
              ELSE IF dep.dep_type \in {"dev", "optional"}
              THEN [s1 EXCEPT !.dev_packages = @ + 1]
              ELSE s1
        s3 == IF package_info.requires_attribution
              THEN [s2 EXCEPT !.requires_attribution = @ + 1] ELSE s2
        s4 == IF package_info.license = S("unknown")
              THEN [s3 EXCEPT !.unknown_licenses = @ + 1] ELSE s3
    IN [rep EXCEPT !.packages = Append(@, package_info), !.summary = s4]

\* one iteration of "Process each dependency"
ProcessDependency(rep, dep, installed) ==
    LET info == GetPackageInfo(dep.name, installed)
        package_info ==
            [name |-> info.name, version |-> info.version, license |-> info.license,
             author |-> info.author, homepage |-> info.homepage,
             requires_attribution |-> info.requires_attribution,
             dependency_type |-> dep.dep_type, version_spec |-> dep.version_spec]
        s1 == rep.summary
        s2 == IF dep.dep_type = "runtime"
              THEN [s1 EXCEPT !.runtime_packages = @ + 1]
              ELSE IF dep.dep_type = "dev" THEN [s1 EXCEPT !.dev_packages = @ + 1]
              ELSE IF dep.dep_type = "optional" THEN [s1 EXCEPT !.optional_packages = @ + 1]
              ELSE s1
        s3 == IF package_info.requires_attribution
              THEN [s2 EXCEPT !.requires_attribution = @ + 1] ELSE s2
        s4 == IF package_info.license = S("unknown")
              THEN [s3 EXCEPT !.unknown_licenses = @ + 1] ELSE s3
    IN [rep EXCEPT !.packages = Append(@, package_info), !.summary = s4]

RECURSIVE ProcessDependencies(_, _, _)
ProcessDependencies(rep, deps, installed) ==
    IF deps = <<>> THEN rep
    ELSE ProcessDependencies(ProcessDependency(rep, Head(deps), installed),
                             Tail(deps), installed)

\* generate_report, from the list get_all_dependencies returned
GenerateReport(w, dependencies, include_dev, include_optional, runtime_only, exclude_patterns, project_name) ==
    LET filtered_deps == FilterDependencies(dependencies, include_dev, include_optional,
                                            runtime_only, exclude_patterns)
        files == DiscoverDependencyFiles(w)
        rep == [project |-> IF project_name = <<>> THEN DetectProjectName(w)
                               ELSE project_name,
                   project_path |-> w.project_path,
                   generated_by |-> "Universal Python License Reporter",
                   report_type |-> ReportType(include_dev, include_optional, runtime_only),
                   dependency_files |-> [i \in DOMAIN files |-> <<w.project_path, files[i]>>],
                   packages |-> <<>>,
                   summary |-> EmptySummary,
                   excluded_build_tools |-> IF runtime_only THEN build_time_packages ELSE {},
                   filters_applied |-> [include_dev |-> include_dev,
                                        include_optional |-> include_optional,
                                        runtime_only |-> runtime_only,
                                        exclude_patterns |-> exclude_patterns]]
        processed == ProcessDependencies(rep, SortedByName(filtered_deps), w.installed)
    IN [processed EXCEPT !.summary.total_packages = Len(filtered_deps)]

-----------------------------------------------------------------------------
(* The renderers. The rendered text is modelled as its sequence of lines,  *)
(* a line as the tuple of its literal and interpolated parts (<tick> is    *)
(* the backquote character).                                               *)

\* sorted(strings): the element of rank i is the one with i - 1 smaller ones
SortStrings(strings) ==
    [i \in 1..Cardinality(strings) |->
        CHOOSE x \in strings : Cardinality({y \in strings : StrLess(y, x)}) = i - 1]

SortedBuildTools == SortStrings(build_time_packages)

RECURSIVE FlatMap(_, _)
FlatMap(F(_), seq) == IF seq = <<>> THEN <<>> ELSE F(Head(seq)) \o FlatMap(F, Tail(seq))

YesNo(b) == IF b THEN "Yes" ELSE "No"

TextPackageBlock(package) ==
    <<<<"Package: ", package.name>>, <<"Version: ", package.version>>>>
    \o (IF package.version_spec # <<>>
        THEN <<<<"Version Spec: ", package.version_spec>>>> ELSE <<>>)
    \o <<<<"Dependency Type: ", package.dependency_type>>,
         <<"License: ", package.license>>,
         <<"Author: ", package.author>>,
         <<"Homepage: ", package.homepage>>,
         <<"Requires Attribution: ", YesNo(package.requires_attribution)>>,
         <<"-", 40>>, <<"">>>>

\* format_text_report
FormatTextReport(rep) ==
    LET summary == rep.summary
        filters == rep.filters_applied
    IN <<<<"=", 80>>, <<"THIRD-PARTY SOFTWARE LICENSES">>, <<"=", 80>>, <<"">>,
         <<"Project: ", rep.project>>,
         <<"Project Path: ", rep.project_path>>,
         <<"Generated by: ", rep.generated_by>>,
         <<"Report Type: ", rep.report_type>>, <<"">>>>
       \o (IF rep.dependency_files # <<>>
           THEN <<<<"DEPENDENCY FILES ANALYZED:">>>>
                \o [i \in DOMAIN rep.dependency_files |->
                       <<"  - ", rep.dependency_files[i]>>]
                \o <<<<"">>>>
           ELSE <<>>)
       \o <<<<"SUMMARY:">>, <<"  Total packages: ", summary.total_packages>>>>
       \o (IF summary.runtime_packages > 0
           THEN <<<<"  Runtime packages: ", summary.runtime_packages>>>> ELSE <<>>)
       \o (IF summary.dev_packages > 0
           THEN <<<<"  Development packages: ", summary.dev_packages>>>> ELSE <<>>)
       \o (IF summary.optional_packages > 0
           THEN <<<<"  Optional packages: ", summary.optional_packages>>>> ELSE <<>>)
       \o <<<<"  Packages requiring attribution: ", summary.requires_attribution>>,
            <<"  Packages with unknown licenses: ", summary.unknown_licenses>>, <<"">>>>
       \o (IF filters.include_dev \/ filters.include_optional \/ filters.runtime_only
              \/ filters.exclude_patterns # <<>>
           THEN <<<<"FILTERS APPLIED:">>>>
                \o (IF filters.runtime_only
                    THEN <<<<"  - Runtime dependencies only (PyInstaller compliance mode)">>>>
                    ELSE <<>>)
                \o (IF filters.include_dev
                    THEN <<<<"  - Development dependencies included">>>> ELSE <<>>)
                \o (IF filters.include_optional
                    THEN <<<<"  - Optional dependencies included">>>> ELSE <<>>)
                \o (IF filters.exclude_patterns # <<>>
                    THEN <<<<"  - Excluded patterns: ", filters.exclude_patterns>>>>
                    ELSE <<>>)
                \o <<<<"">>>>
           ELSE <<>>)
       \o (IF rep.excluded_build_tools # {}
           THEN <<<<"EXCLUDED BUILD-TIME DEPENDENCIES:">>,
                  <<"The following build tools are excluded as they are not">>,
                  <<"distributed with the PyInstaller executable:">>,
                  <<IF rep.excluded_build_tools = build_time_packages
                    THEN SortedBuildTools
                    ELSE SortStrings(rep.excluded_build_tools)>>,
                  <<"">>>>
           ELSE <<>>)
       \o <<<<"=", 80>>, <<"PACKAGE DETAILS">>, <<"=", 80>>, <<"">>>>
       \o FlatMap(TextPackageBlock, rep.packages)

MarkdownTableRow(package) ==
    <<<<"| ", package.name, " | ", package.version, " | ", package.dependency_type,
        " | ", package.license, " | ", YesNo(package.requires_attribution), " |">>>>

MarkdownPackageSection(package) ==
    <<<<"### ", package.name>>, <<"">>, <<"- **Version:** ", package.version>>>>
    \o (IF package.version_spec # <<>>
        THEN <<<<"- **Version Specification:** <tick>", package.version_spec, "<tick>">>>> ELSE <<>>)
    \o <<<<"- **Dependency Type:** ", package.dependency_type>>,
         <<"- **License:** ", package.license>>,
         <<"- **Author:** ", package.author>>>>
    \o (IF package.homepage # S("unknown")
        THEN <<<<"- **Homepage:** ", package.homepage>>>> ELSE <<>>)
    \o <<<<"- **Requires Attribution:** ", YesNo(package.requires_attribution)>>, <<"">>>>

\* format_markdown_report
FormatMarkdownReport(rep) ==
    LET summary == rep.summary
    IN <<<<"# Third-Party Software Licenses">>, <<"">>,
         <<"**Project:** ", rep.project>>,
         <<"**Project Path:** <tick>", rep.project_path, "<tick>">>,
         <<"**Generated by:** ", rep.generated_by>>,
         <<"**Report Type:** ", rep.report_type>>, <<"">>,
         <<"## Summary">>, <<"">>,
         <<"- **Total packages:** ", summary.total_packages>>>>
       \o (IF summary.runtime_packages > 0
           THEN <<<<"- **Runtime packages:** ", summary.runtime_packages>>>> ELSE <<>>)
       \o (IF summary.dev_packages > 0
           THEN <<<<"- **Development packages:** ", summary.dev_packages>>>> ELSE <<>>)
       \o (IF summary.optional_packages > 0
           THEN <<<<"- **Optional packages:** ", summary.optional_packages>>>> ELSE <<>>)
       \o <<<<"- **Packages requiring attribution:** ", summary.requires_attribution>>,
            <<"- **Packages with unknown licenses:** ", summary.unknown_licenses>>, <<"">>>>
       \o (IF rep.dependency_files # <<>>
           THEN <<<<"## Dependency Files Analyzed">>, <<"">>>>
                \o [i \in DOMAIN rep.dependency_files |->
                       <<"- <tick>", rep.dependency_files[i], "<tick>">>]
                \o <<<<"">>>>
           ELSE <<>>)
       \o <<<<"## Package Details">>, <<"">>,
            <<"| Package | Version | Type | License | Attribution Required |">>,
            <<"|---------|---------|------|---------|---------------------|">>>>
       \o FlatMap(MarkdownTableRow, rep.packages)
       \o <<<<"">>, <<"## Detailed License Information">>, <<"">>>>
       \o FlatMap(MarkdownPackageSection, rep.packages)

\* json.dumps(report, indent=2): the fields of the report, serialized
FormatJson(rep) == <<<<"json.dumps", rep>>>>

-----------------------------------------------------------------------------
(* main, step by step *)

\* args.exclude.split(',')
RECURSIVE SplitComma(_)
SplitComma(s) ==
    LET first == CHOOSE k \in 1..(Len(s) + 1) :
                     /\ k = Len(s) + 1 \/ s[k] = ","
                     /\ \A j \in 1..(k - 1) : s[j] # ","
    IN IF first = Len(s) + 1 THEN <<s>>
       ELSE <<SubSeq(s, 1, first - 1)>> \o SplitComma(SliceFrom(s, first))

\* a variant in which --runtime-only is looked at before --all-deps
HandleOptions_RuntimeOnlyFirst ==
    /\ pc = "start"
    /\ settings' =
          [include_dev |-> IF args.runtime_only THEN FALSE
                           ELSE IF args.all_deps THEN TRUE ELSE args.include_dev,
           include_optional |-> IF args.runtime_only THEN FALSE
                                ELSE IF args.all_deps THEN TRUE
                                ELSE args.include_optional,
           runtime_only |-> args.runtime_only,
           exclude_patterns |->
               IF args.exclude # <<>>
               THEN LET parts == SplitComma(args.exclude)
                    IN [i \in DOMAIN parts |-> Strip(parts[i])]
               ELSE <<>>]
    /\ pc' = "resolve_path"
    /\ UNCHANGED <<callVars, args, world, report_args, pending, all_deps, parsed, report,
                   output, destination, ret, exit_code>>

\* "Handle conflicting options" and "Parse exclude patterns"
HandleOptions ==
    /\ pc = "start"
    /\ settings' =
          [include_dev |-> IF args.all_deps THEN TRUE
                           ELSE IF args.runtime_only THEN FALSE ELSE args.include_dev,
           include_optional |-> IF args.all_deps THEN TRUE
                                ELSE IF args.runtime_only THEN FALSE
                                ELSE args.include_optional,
           runtime_only |-> IF args.all_deps THEN FALSE ELSE args.runtime_only,
           exclude_patterns |->
               IF args.exclude # <<>>
               THEN LET parts == SplitComma(args.exclude)
                    IN [i \in DOMAIN parts |-> Strip(parts[i])]
               ELSE <<>>]
    /\ pc' = "resolve_path"
    /\ UNCHANGED <<callVars, args, world, report_args, pending, all_deps, parsed, report,
                   output, destination, ret, exit_code>>

\* the project path does not exist: return 1
ProjectPathMissing ==
    /\ pc = "resolve_path"
    /\ ~world.path_exists
    /\ destination' = "error"
    /\ ret' = 1
    /\ pc' = "returned"
    /\ UNCHANGED <<callVars, args, world, settings, report_args, pending, all_deps, parsed,
                   report, output, exit_code>>

\* LicenseReporter(project_path), the call of generate_report, and the
\* first statements of get_all_dependencies
CallGenerateReport ==
    /\ pc = "resolve_path"
    /\ world.path_exists
    /\ report_args' =
          IF args.legacy_mode
          THEN [include_dev |-> FALSE, include_optional |-> FALSE, runtime_only |-> TRUE,
                exclude_patterns |-> <<>>,
                project_name |-> S("OSI (Open Source Installer)")]
          ELSE [include_dev |-> settings.include_dev,
                include_optional |-> settings.include_optional,
                runtime_only |-> settings.runtime_only,
                exclude_patterns |-> settings.exclude_patterns,
                project_name |-> args.project_name]
    /\ pending' = DiscoverDependencyFiles(world)
    /\ all_deps' = <<>>
    /\ pc' = "get_all_dependencies"
    /\ UNCHANGED <<callVars, args, world, settings, parsed, report, output, destination,
                   ret, exit_code>>

\* one iteration of the loop of get_all_dependencies, for a parser result
Extend(file_type, result) ==
    /\ all_deps' = all_deps \o result.deps
    /\ parsed' = Append(parsed, [file |-> file_type, deps |-> result.deps,
                                 raised |-> result.raised])
    /\ pending' = Tail(pending)
    /\ UNCHANGED <<pc, callVars, args, world, settings, report_args, report, output,
                   destination, ret, exit_code>>

ParseRequirementsFile ==
    /\ pc = "get_all_dependencies"
    /\ pending # <<>>
    /\ EndsWith(S(Head(pending)), S(".txt"))
    /\ Extend(Head(pending), ParseRequirementsTxt(world.files[Head(pending)], Head(pending)))

ParseSetupPyFile ==
    /\ pc = "get_all_dependencies"
    /\ pending # <<>>
    /\ ~EndsWith(S(Head(pending)), S(".txt"))
    /\ Head(pending) = "setup.py"
    /\ Extend(Head(pending), ParseSetupPy(world.files[Head(pending)]))

ParsePyprojectFile ==
    /\ pc = "get_all_dependencies"
    /\ pending # <<>>
    /\ ~EndsWith(S(Head(pending)), S(".txt"))
    /\ Head(pending) = "pyproject.toml"
    /\ Extend(Head(pending),
              ParsePyprojectToml(world.files[Head(pending)], world.toml_available))

\* "Skip unsupported formats for now"
SkipUnsupportedFile ==
    /\ pc = "get_all_dependencies"
    /\ pending # <<>>
    /\ ~EndsWith(S(Head(pending)), S(".txt"))
    /\ Head(pending) \notin {"setup.py", "pyproject.toml"}
    /\ pending' = Tail(pending)
    /\ UNCHANGED <<pc, callVars, args, world, settings, report_args, all_deps, parsed,
                   report, output, destination, ret, exit_code>>

\* get_all_dependencies returns; the rest of generate_report
BuildReport ==
    /\ pc = "get_all_dependencies"
    /\ pending = <<>>
    /\ report' = GenerateReport(world, all_deps, report_args.include_dev,
                                report_args.include_optional, report_args.runtime_only,
                                report_args.exclude_patterns, report_args.project_name)
    /\ pc' = "format"
    /\ UNCHANGED <<callVars, args, world, settings, report_args, pending, all_deps, parsed,
                   output, destination, ret, exit_code>>

\* "Format output"
FormatOutput ==
    /\ pc = "format"
    /\ output' = IF args.format = "json" THEN FormatJson(report)
                 ELSE IF args.format = "markdown" THEN FormatMarkdownReport(report)
                 ELSE FormatTextReport(report)
    /\ pc' = "write"
    /\ UNCHANGED <<callVars, args, world, settings, report_args, pending, all_deps, parsed,
                   report, destination, ret, exit_code>>

\* "Write output": the file is written
WriteOutputFile ==
    /\ pc = "write"
    /\ args.output # ""
    /\ world.output_writable
    /\ destination' = "file"
    /\ ret' = 0
    /\ pc' = "returned"
    /\ UNCHANGED <<callVars, args, world, settings, report_args, pending, all_deps, parsed,
                   report, output, exit_code>>

\* "Write output": open or write raises; return 1
WriteOutputFails ==
    /\ pc = "write"
    /\ args.output # ""
    /\ ~world.output_writable
    /\ destination' = "error"
    /\ ret' = 1
    /\ pc' = "returned"
    /\ UNCHANGED <<callVars, args, world, settings, report_args, pending, all_deps, parsed,
                   report, output, exit_code>>

\* "Write output": no output file, print(output)
PrintOutput ==
    /\ pc = "write"
    /\ args.output = ""
    /\ destination' = "stdout"
    /\ ret' = 0
    /\ pc' = "returned"
    /\ UNCHANGED <<callVars, args, world, settings, report_args, pending, all_deps, parsed,
                   report, output, exit_code>>

\* the __main__ guard calls main() and drops the value it returns: the
\* interpreter then ends normally, with exit status 0
ExitProcess ==
    /\ pc = "returned"
    /\ exit_code' = 0
    /\ pc' = "exited"
    /\ UNCHANGED <<callVars, args, world, settings, report_args, pending, all_deps, parsed,
                   report, output, destination, ret>>

Next ==
    \/ HandleOptions
    \/ ProjectPathMissing
    \/ CallGenerateReport
    \/ ParseRequirementsFile
    \/ ParseSetupPyFile
    \/ ParsePyprojectFile
    \/ SkipUnsupportedFile
    \/ BuildReport
    \/ FormatOutput
    \/ WriteOutputFile
    \/ WriteOutputFails
    \/ PrintOutput
    \/ ExitProcess

-----------------------------------------------------------------------------
(* The projects, environments and command lines a run is drawn from *)

Txt(lines, fail_after) == [kind |-> "txt", lines |-> lines, fail_after |-> fail_after]

MixedLines ==
    <<S("# pinned"), S("Flask>=2.0"), S(""), S("-e ."), S(" six "), S("six>1")>>

TxtContents ==
    {Txt(<<S("requests==2.31.0")>>, NoFailure),
     Txt(<<S("pytest")>>, NoFailure),
     Txt(<<S("requests==2.31.0")>>, 0),
     Txt(MixedLines, NoFailure),
     Txt(MixedLines, 2)}

SetupPy(readable, has_install_requires, has_extras_require, has_name) ==
    [kind |-> "setup.py", readable |-> readable,
     has_install_requires |-> has_install_requires,
     install_requires |-> <<S("requests>=2.0,<3.0"), S("six")>>,
     has_extras_require |-> has_extras_require,
     extras_require |-> <<S("dev"), S("pytest>=7.0"), S("gui"), S("PyQt5")>>,
     has_name |-> has_name, name |-> S("setup-name")]

SetupPyContents ==
    {SetupPy(TRUE, TRUE, TRUE, TRUE), SetupPy(TRUE, FALSE, FALSE, FALSE),
     SetupPy(FALSE, TRUE, TRUE, TRUE)}

Str(text) == [is_str |-> TRUE, text |-> S(text)]
NonStr == [is_str |-> FALSE, text |-> <<>>]

NoData ==
    [project_keys |-> {}, project_name |-> <<>>, dependencies |-> <<>>,
     optional_is_table |-> TRUE, optional_dependencies |-> <<>>,
     poetry_keys |-> {}, poetry_name |-> <<>>, poetry_dependencies |-> <<>>,
     poetry_dev_dependencies |-> <<>>]

Pep621Data ==
    [NoData EXCEPT
        !.project_keys = {"name", "dependencies", "optional-dependencies"},
        !.project_name = S("pep621-name"),
        !.dependencies = <<Str("requests>=2"), Str(" six<2")>>,
        !.optional_dependencies =
            <<[group_name |-> "dev", deps |-> <<Str("pytest")>>],
              [group_name |-> "gui", deps |-> <<Str("PyQt5>=5")>>]>>]

\* [project.optional-dependencies] is not a table of lists
MalformedData ==
    [NoData EXCEPT
        !.project_keys = {"dependencies", "optional-dependencies"},
        !.dependencies = <<Str("Flask")>>,
        !.optional_is_table = FALSE]

\* the entries of [project.dependencies] are tables, not strings
NonStringData ==
    [NoData EXCEPT
        !.project_keys = {"dependencies"},
        !.dependencies = <<NonStr, NonStr>>]

PoetryData ==
    [NoData EXCEPT
        !.poetry_keys = {"name", "dependencies", "dev-dependencies"},
        !.poetry_name = S("poetry-name"),
        !.poetry_dependencies =
            <<[name |-> S("python"), spec_is_dict |-> FALSE, spec |-> S("^3.8")],
              [name |-> S("requests"), spec_is_dict |-> FALSE, spec |-> S("^2.0")],
              [name |-> S("Flask"), spec_is_dict |-> TRUE, spec |-> <<>>]>>,
        !.poetry_dev_dependencies =
            <<[name |-> S("black"), spec_is_dict |-> FALSE, spec |-> S("*")]>>]

Pyproject(decodable, data) == [kind |-> "pyproject.toml", decodable |-> decodable, data |-> data]

PyprojectContents ==
    {Pyproject(TRUE, Pep621Data), Pyproject(TRUE, MalformedData),
     Pyproject(TRUE, NonStringData), Pyproject(TRUE, PoetryData), Pyproject(FALSE, NoData)}

Unparsed == [kind |-> "unparsed"]

ContentsFor(name) ==
    IF EndsWith(S(name), S(".txt")) THEN TxtContents
    ELSE IF name = "setup.py" THEN SetupPyContents
    ELSE IF name = "pyproject.toml" THEN PyprojectContents
    ELSE {Unparsed}

CandidateSet == {CandidateNames[i] : i \in DOMAIN CandidateNames}

AllContents == TxtContents \cup SetupPyContents \cup PyprojectContents \cup {Unparsed}

\* the projects with at most n manifests
Projects(n) ==
    UNION {{files \in [names -> AllContents] : \A f \in names : files[f] \in ContentsFor(f)} :
              names \in {ns \in SUBSET CandidateSet : Cardinality(ns) <= n}}

Dist(version, metadata) == [version |-> S(version), metadata |-> metadata]

NothingInstalled == <<>>

Installed ==
    (S("requests") :> Dist("2.31.0", <<S("Metadata-Version: 2.1"), S("Name: requests"),
                                        S("License: Apache 2.0"), S("Author: Kenneth Reitz"),
                                        S("Home-page: https://requests.readthedocs.io")>>))
    @@ (S("six") :> Dist("1.16.0", <<S("License: MIT"), S("Author: Benjamin Peterson")>>))
    @@ (S("pytest") :> Dist("7.4.0", <<S("Name: pytest"), S("License: MIT")>>))
    @@ (S("Flask") :> Dist("2.3.0", <<S("License: BSD-3-Clause")>>))
    @@ (S("PyQt5") :> Dist("5.15", <<S("License: GPL v3")>>))
    @@ (S("black") :> Dist("23.1", <<S("Name: black")>>))

InstalledOther ==
    (S("requests") :> Dist("2.31.0", <<S("License: unknown")>>))
    @@ (S("six") :> Dist("1.16.0", <<S("License: Public Domain")>>))
    @@ (S("pytest") :> Dist("7.4.0", <<S("License: UNKNOWN")>>))
    @@ (S("PyQt5") :> Dist("5.15", <<S("License: The Unlicense or MIT")>>))

Environments == {NothingInstalled, Installed, InstalledOther}

World(path_exists, files, toml_available, installed, output_writable) ==
    [path_exists |-> path_exists, project_path |-> "/work/project",
     dir_name |-> S("project"), files |-> files, toml_available |-> toml_available,
     installed |-> installed, output_writable |-> output_writable]

BaseFiles ==
    ("requirements.txt" :> Txt(<<S("requests==2.31.0")>>, NoFailure))
    @@ ("requirements-dev.txt" :> Txt(<<S("pytest")>>, NoFailure))
    @@ ("setup.py" :> SetupPy(TRUE, TRUE, TRUE, TRUE))

Args(all, runtime_only, include_dev, include_optional, legacy_mode, exclude, project_name, format, out) ==
    [all_deps |-> all, runtime_only |-> runtime_only, include_dev |-> include_dev,
     include_optional |-> include_optional, legacy_mode |-> legacy_mode,
     exclude |-> exclude, project_name |-> project_name, format |-> format,
     output |-> out]

Formats == {"text", "json", "markdown"}

\* every combination of the command-line options, on one project
CommandLines ==
    {Args(a, r, d, o, l, e, n, f, out) :
        a \in BOOLEAN, r \in BOOLEAN, d \in BOOLEAN, o \in BOOLEAN, l \in BOOLEAN,
        e \in {<<>>, S("test*, *MOCK*,s?x")}, n \in {<<>>, S("override")},
        f \in Formats, out \in {"", "licenses.txt"}}

\* the four filtering modes, with the defaults for everything else
Modes ==
    {Args(FALSE, FALSE, FALSE, FALSE, FALSE, <<>>, <<>>, "text", ""),
     Args(FALSE, FALSE, TRUE, FALSE, FALSE, <<>>, <<>>, "text", ""),
     Args(FALSE, TRUE, FALSE, FALSE, FALSE, <<>>, <<>>, "text", ""),
     Args(TRUE, FALSE, FALSE, FALSE, FALSE, <<>>, <<>>, "text", "")}

Idle ==
    /\ fn_in = <<>> /\ fn_out = <<>>
    /\ settings = <<>> /\ report_args = <<>> /\ pending = <<>> /\ all_deps = <<>>
    /\ parsed = <<>> /\ report = <<>> /\ output = <<>> /\ destination = ""
    /\ ret = 0 /\ exit_code = 0

Init ==
    /\ pc = "start"
    /\ Idle
    /\ \/ /\ args \in CommandLines
          /\ world \in {World(TRUE, BaseFiles, TRUE, Installed, w) : w \in BOOLEAN}
       \/ /\ args \in Modes
          /\ world \in {World(TRUE, files, TRUE, Installed, TRUE) : files \in Projects(MaxFiles)}
       \/ /\ args \in Modes
          /\ world \in {World(e, BaseFiles @@ ("pyproject.toml" :> p), t, i, TRUE) :
                           e \in BOOLEAN, p \in PyprojectContents, t \in BOOLEAN,
                           i \in Environments}

Spec == Init /\ [][Next]_vars

-----------------------------------------------------------------------------
(* Calls of the pure functions on inputs drawn from bounded sets *)

NameAlphabet == {"a", "B", "-"}
PatternAlphabet == {"a", "b", "*", "?", "."}

MatchInputs ==
    {[name |-> n, pattern |-> p] :
        n \in SeqsUpTo(NameAlphabet, MaxNameLen), p \in SeqsUpTo(PatternAlphabet, MaxPatLen)}
    \cup {[name |-> Chars("pytest-mock"), pattern |-> Chars(p)] : p \in {"test*", "*mock*", "PyTest-????"}}

\* the variables of a run of main, in a specification that only calls a function
NoRun ==
    /\ args = <<>> /\ world = <<>> /\ settings = <<>> /\ report_args = <<>>
    /\ pending = <<>> /\ all_deps = <<>> /\ parsed = <<>> /\ report = <<>>
    /\ output = <<>> /\ destination = "" /\ ret = 0 /\ exit_code = 0

InitMatch == pc = "call" /\ fn_in \in MatchInputs /\ fn_out = FALSE /\ NoRun

CallMatchesPattern ==
    /\ pc = "call"
    /\ fn_out' = MatchesPattern(fn_in.name, fn_in.pattern)
    /\ pc' = "returned"
    /\ UNCHANGED <<fn_in, runVars>>

NextMatch == CallMatchesPattern

SpecMatch == InitMatch /\ [][NextMatch]_vars

SpecAlphabet == {"a", " ", ">", "=", "1"}

SplitInputs ==
    SeqsUpTo(SpecAlphabet, MaxSpecLen)
    \cup StrSet({"requests>=2.0,<3.0", "six", "requests >= 2.0", " six==1", "a!=1", "a<2"})

InitSplit ==
    /\ pc = "call"
    /\ fn_in \in SplitInputs
    /\ fn_out = DependencyInfo(<<>>, <<>>, "runtime")
    /\ NoRun

CallSplitSpec ==
    /\ pc = "call"
    /\ fn_out' = SplitSpec(fn_in, "runtime")
    /\ pc' = "returned"
    /\ UNCHANGED <<fn_in, runVars>>

NextSplit == CallSplitSpec

SpecSplit == InitSplit /\ [][NextSplit]_vars

LicenseFragments ==
    StrSet({"MIT", " License", "Public Domain", "Unlicense", "WTFPL", "unknown",
            " or ", "BSD", "Apache 2.0", "GPL"})

RECURSIVE Concat(_)
Concat(ss) == IF ss = <<>> THEN <<>> ELSE Head(ss) \o Concat(Tail(ss))

LicenseTexts == {Concat(fs) : fs \in SeqsUpTo(LicenseFragments, MaxFragments)}

InitAttribution == pc = "call" /\ fn_in \in LicenseTexts /\ fn_out = FALSE /\ NoRun

CallRequiresAttribution ==
    /\ pc = "call"
    /\ fn_out' = RequiresAttribution(fn_in)
    /\ pc' = "returned"
    /\ UNCHANGED <<fn_in, runVars>>

NextAttribution == CallRequiresAttribution

SpecAttribution == InitAttribution /\ [][NextAttribution]_vars

DepTypes == {"runtime", "dev", "optional", "build"}

FilterNames == StrSet({"requests", "wheel", "Mock", "types-six", "six"})

FilterPatterns ==
    {<<>>, <<Chars("*mock*")>>, <<Chars("test*"), Chars("S?X")>>, <<Chars("re.*")>>}

FilterInputs ==
    [dependencies : SeqsUpTo([name : FilterNames, version_spec : {<<>>}, dep_type : DepTypes],
                             MaxDeps),
     include_dev : BOOLEAN, include_optional : BOOLEAN, runtime_only : BOOLEAN,
     exclude_patterns : FilterPatterns]

InitFilter == pc = "call" /\ fn_in \in FilterInputs /\ fn_out = <<>> /\ NoRun

CallFilterDependencies ==
    /\ pc = "call"
    /\ fn_out' = FilterDependencies(fn_in.dependencies, fn_in.include_dev,
                                    fn_in.include_optional, fn_in.runtime_only,
                                    fn_in.exclude_patterns)
    /\ pc' = "returned"
    /\ UNCHANGED <<fn_in, runVars>>

NextFilter == CallFilterDependencies

SpecFilter == InitFilter /\ [][NextFilter]_vars

\* filter_dependencies called on lists of the three groups the parsers
\* produce, for the comparison of a call with the calls that differ from it
\* in one flag or one pattern
MonotoneInputs ==
    [dependencies : SeqsUpTo([name : StrSet({"requests", "wheel", "Mock", "six"}),
                              version_spec : {<<>>},
                              dep_type : {"runtime", "dev", "optional"}],
                             MaxDeps),
     include_dev : BOOLEAN, include_optional : BOOLEAN, runtime_only : BOOLEAN,
     exclude_patterns : FilterPatterns]

InitMonotone == pc = "call" /\ fn_in \in MonotoneInputs /\ fn_out = <<>> /\ NoRun

SpecMonotone == InitMonotone /\ [][NextFilter]_vars

\* format_text_report and format_markdown_report, called on a report twice
\* in succession. The report is a dict the renderer receives by reference:
\* the variable report holds it, fn_in the renderer and the report as it
\* was before the first call, fn_out the texts returned so far.

RenderDeps ==
    {DependencyInfo(S("requests"), S(">=2.0"), "runtime"),
     DependencyInfo(S("six"), <<>>, "dev"),
     DependencyInfo(S("PyQt5"), S(">=5"), "optional"),
     DependencyInfo(S("Flask"), <<>>, "runtime")}

\* (include_dev, include_optional, runtime_only), one for each report type
RenderFlags ==
    {<<FALSE, FALSE, FALSE>>, <<TRUE, FALSE, FALSE>>, <<TRUE, TRUE, FALSE>>,
     <<FALSE, FALSE, TRUE>>}

RenderReports ==
    {GenerateReport(World(TRUE, files, TRUE, installed, TRUE), deps, f[1], f[2], f[3], p, <<>>) :
        files \in {<<>>, BaseFiles}, installed \in Environments,
        deps \in SeqsUpTo(RenderDeps, MaxDeps), f \in RenderFlags,
        p \in {<<>>, <<S("x*"), S("y?")>>}}

Renderers == {"text", "markdown"}

\* a variant that takes the package records out of the report as it
\* renders them
CallRenderer_DrainsPackages(renderer, rep) ==
    [output |-> IF renderer = "markdown" THEN FormatMarkdownReport(rep)
                ELSE FormatTextReport(rep),
     report |-> [rep EXCEPT !.packages = <<>>]]

\* one call: the text returned and the report after the call; neither
\* renderer assigns to the report or to anything reachable from it
CallRenderer(renderer, rep) ==
    [output |-> IF renderer = "markdown" THEN FormatMarkdownReport(rep)
                ELSE FormatTextReport(rep),
     report |-> rep]

InitRender ==
    /\ pc = "call"
    /\ fn_in \in [renderer : Renderers, report : RenderReports]
    /\ fn_out = <<>>
    /\ report = fn_in.report
    /\ args = <<>> /\ world = <<>> /\ settings = <<>> /\ report_args = <<>>
    /\ pending = <<>> /\ all_deps = <<>> /\ parsed = <<>>
    /\ output = <<>> /\ destination = "" /\ ret = 0 /\ exit_code = 0

Render ==
    LET result == CallRenderer(fn_in.renderer, report)
    IN /\ fn_out' = Append(fn_out, result.output)
       /\ report' = result.report
       /\ UNCHANGED <<fn_in, args, world, settings, report_args, pending, all_deps, parsed,
                      output, destination, ret, exit_code>>

RenderFirst == pc = "call" /\ Render /\ pc' = "again"

RenderAgain == pc = "again" /\ Render /\ pc' = "returned"

NextRender == RenderFirst \/ RenderAgain

SpecRender == InitRender /\ [][NextRender]_vars


\* parse_requirements_txt called on a readable file of up to MaxLines lines

RequirementLines ==
    {S("requests==2.31.0"), S(" six "), S(""), S(" \t"), S("# pinned"), S("  #x"),
     S("-e ."), S("Flask>=2.0 # web"), S(">=2.0"), S("zope.interface-x_1 <2"),
     S("~a")}

RequirementFilenames ==
    {"requirements.txt", "requirements-dev.txt", "test-requirements.txt",
     "Docs-Requirements.txt"}

RequirementsInputs ==
    [content : {Txt(lines, NoFailure) : lines \in SeqsUpTo(RequirementLines, MaxLines)},
     filename : RequirementFilenames]

InitRequirements == pc = "call" /\ fn_in \in RequirementsInputs /\ fn_out = <<>> /\ NoRun

CallParseRequirementsTxt ==
    /\ pc = "call"
    /\ fn_out' = ParseRequirementsTxt(fn_in.content, fn_in.filename)
    /\ pc' = "returned"
    /\ UNCHANGED <<fn_in, runVars>>

NextRequirements == CallParseRequirementsTxt

SpecRequirements == InitRequirements /\ [][NextRequirements]_vars


-----------------------------------------------------------------------------
(* The properties *)

\* sub is obtained from seq by deleting elements
RECURSIVE IsSubsequence(_, _)
IsSubsequence(sub, seq) ==
    IF sub = <<>> THEN TRUE
    ELSE IF seq = <<>> THEN FALSE
    ELSE IF Head(sub) = Head(seq) THEN IsSubsequence(Tail(sub), Tail(seq))
    ELSE IsSubsequence(sub, Tail(seq))

\* a case-insensitive glob anchored on the whole name: '*' any run,
\* '?' one character, any other character itself
RECURSIVE GlobMatch(_, _)
GlobMatch(pattern, name) ==
    IF pattern = <<>> THEN name = <<>>
    ELSE IF Head(pattern) = "*"
    THEN GlobMatch(Tail(pattern), name) \/ (name # <<>> /\ GlobMatch(pattern, Tail(name)))
    ELSE IF Head(pattern) = "?"
    THEN name # <<>> /\ GlobMatch(Tail(pattern), Tail(name))
    ELSE /\ name # <<>>
         /\ LowerChar(Head(pattern)) = LowerChar(Head(name))
         /\ GlobMatch(Tail(pattern), Tail(name))

\* the seven drop rules, as far as each is active for the call's setting
PassesActiveRules(dep, call) ==
    /\ \A i \in DOMAIN call.exclude_patterns :
          /\ ~MatchesPattern(dep.name, call.exclude_patterns[i])
          /\ ~GlobMatch(call.exclude_patterns[i], dep.name)
    /\ call.runtime_only =>
          /\ dep.dep_type = "runtime"
          /\ StrLower(dep.name) \notin build_time_packages
          /\ StrLower(dep.name) \notin test_packages
          /\ \A stub \in type_stub_packages : ~StartsWith(dep.name, stub)
    /\ dep.dep_type = "dev" => call.include_dev
    /\ dep.dep_type = "optional" => call.include_optional

\* C1: filter_dependencies returns an order-preserving subsequence of its
\* input, no longer than it, and every dependency it retains passes all the
\* drop rules that are active for the call's flags and exclude patterns.
C1_FilterIsSubsequencePassingRules ==
    pc = "returned" =>
        /\ IsSubsequence(fn_out, fn_in.dependencies)
        /\ Len(fn_out) <= Len(fn_in.dependencies)
        /\ \A i \in DOMAIN fn_out : PassesActiveRules(fn_out[i], fn_in)

C1_Witness ==
    /\ pc = "returned"
    /\ fn_in.runtime_only
    /\ fn_in.exclude_patterns # <<>>
    /\ Len(fn_out) = 1
    /\ Len(fn_in.dependencies) = 2
    /\ fn_out[1] = fn_in.dependencies[2]

\* C2: under runtime_only every retained dependency has group runtime,
\* whatever include_dev and include_optional are.
C2_RuntimeOnlyKeepsRuntimeGroup ==
    (pc = "returned" /\ fn_in.runtime_only) =>
        \A i \in DOMAIN fn_out : fn_out[i].dep_type = "runtime"

C2_Witness ==
    /\ pc = "returned"
    /\ fn_in.runtime_only /\ fn_in.include_dev /\ fn_in.include_optional
    /\ \E i \in DOMAIN fn_in.dependencies :
          /\ fn_in.dependencies[i].dep_type = "dev"
          /\ fn_in.dependencies[i].name = S("six")
    /\ fn_out # <<>>

\* C3: _matches_pattern(name, pattern) gives the result of a case-insensitive
\* whole-name glob match in which only '*' and '?' are special.
C3_MatchesPatternIsGlob ==
    pc = "returned" => (fn_out <=> GlobMatch(fn_in.pattern, fn_in.name))

\* the index of the first comparison-operator character, Len + 1 if none
FirstOperator(s) ==
    CHOOSE k \in 1..(Len(s) + 1) :
        /\ k = Len(s) + 1 \/ s[k] \in {"<", ">", "=", "!"}
        /\ \A j \in 1..(k - 1) : s[j] \notin {"<", ">", "=", "!"}

\* C4: the split is made at the first comparison-operator character: name
\* is the trimmed text before it, version_spec the trimmed text from it to
\* the end (empty when there is no operator), for every spec string.
C4_SplitAtFirstOperator ==
    pc = "returned" =>
        /\ fn_out.name = Strip(SubSeq(fn_in, 1, FirstOperator(fn_in) - 1))
        /\ fn_out.version_spec = Strip(SubSeq(fn_in, FirstOperator(fn_in), Len(fn_in)))

NamesNoAttributionLicense(license_lower) ==
    \/ Contains(license_lower, S("public domain"))
    \/ Contains(license_lower, S("unlicense"))
    \/ Contains(license_lower, S("wtfpl"))

\* C5: _requires_attribution is false exactly when the lowercased text
\* contains public domain, unlicense or wtfpl (also when an
\* attribution-required keyword occurs too) and true otherwise, the empty
\* text and unknown included.
C5_AttributionPolicy ==
    pc = "returned" =>
        /\ fn_out = ~NamesNoAttributionLicense(StrLower(fn_in))
        /\ fn_in = S("MIT License") => fn_out
        /\ fn_in = S("Public Domain") => ~fn_out
        /\ fn_in = <<>> => fn_out
        /\ fn_in = S("unknown") => fn_out
        /\ fn_in = S("Unlicense") => ~fn_out

C5_Witness ==
    /\ pc = "returned"
    /\ Contains(StrLower(fn_in), S("mit"))
    /\ Contains(StrLower(fn_in), S("public domain"))
    /\ fn_out = FALSE

\* generate_report has just returned its report to main
ReportReturned == pc = "format"

CountOf(packages, P(_)) == Cardinality({i \in DOMAIN packages : P(packages[i])})

\* C6: in a report generate_report returns, total_packages is the number of
\* package records, each per-group count is the number of records of that
\* group, and the three per-group counts add up to total_packages.
C6_SummaryCountsPartitionPackages ==
    ReportReturned =>
        LET summary == report.summary
            packages == report.packages
        IN /\ summary.total_packages = Len(packages)
           /\ summary.runtime_packages
                 = CountOf(packages, LAMBDA p : p.dependency_type = "runtime")
           /\ summary.dev_packages = CountOf(packages, LAMBDA p : p.dependency_type = "dev")
           /\ summary.optional_packages
                 = CountOf(packages, LAMBDA p : p.dependency_type = "optional")
           /\ summary.runtime_packages + summary.dev_packages + summary.optional_packages
                 = summary.total_packages

C6_Witness ==
    /\ ReportReturned
    /\ report.summary.runtime_packages > 1
    /\ report.summary.dev_packages > 0
    /\ report.summary.optional_packages > 0

\* C7: in a report generate_report returns, requires_attribution counts the
\* records whose requires_attribution is true, unknown_licenses counts the
\* records whose license is the literal unknown, every record's
\* requires_attribution is the attribution policy of its license, and
\* neither count exceeds total_packages.
C7_AttributionCountsMatchRecords ==
    ReportReturned =>
        LET summary == report.summary
            packages == report.packages
        IN /\ summary.requires_attribution
                 = CountOf(packages, LAMBDA p : p.requires_attribution)
           /\ summary.unknown_licenses
                 = CountOf(packages, LAMBDA p : p.license = S("unknown"))
           /\ \A i \in DOMAIN packages :
                 packages[i].requires_attribution
                     = ~NamesNoAttributionLicense(StrLower(packages[i].license))
           /\ summary.requires_attribution <= summary.total_packages
           /\ summary.unknown_licenses <= summary.total_packages

C7_Witness ==
    /\ ReportReturned
    /\ \E i \in DOMAIN report.packages : ~report.packages[i].requires_attribution
    /\ \E i \in DOMAIN report.packages :
          /\ report.packages[i].requires_attribution
          /\ report.packages[i].license # S("unknown")
    /\ report.summary.unknown_licenses > 0
    /\ report.summary.unknown_licenses < report.summary.requires_attribution

\* the dependencies the report is built from
FilteredOfRun ==
    FilterDependencies(all_deps, report_args.include_dev, report_args.include_optional,
                       report_args.runtime_only, report_args.exclude_patterns)

\* the place a stable sort by lowercased name gives the k-th dependency
StableRank(deps, k) ==
    Cardinality({j \in DOMAIN deps : StrLess(StrLower(deps[j].name), StrLower(deps[k].name))})
    + Cardinality({j \in 1..k : StrLower(deps[j].name) = StrLower(deps[k].name)})

\* C8: report.packages is in non-decreasing order of lowercased name, holds
\* exactly one record per filtered dependency, each with that dependency's
\* name, group and version_spec, and records of equal lowercased name are
\* in discovery order.
C8_PackagesSortedOnePerDependency ==
    ReportReturned =>
        LET packages == report.packages
            deps == FilteredOfRun
        IN /\ Len(packages) = Len(deps)
           /\ \A i \in 1..(Len(packages) - 1) :
                 ~StrLess(StrLower(packages[i + 1].name), StrLower(packages[i].name))
           /\ \A k \in DOMAIN deps :
                 LET record == packages[StableRank(deps, k)]
                 IN /\ record.name = deps[k].name
                    /\ record.dependency_type = deps[k].dep_type
                    /\ record.version_spec = deps[k].version_spec

C8_Witness ==
    /\ ReportReturned
    /\ \E i \in 1..(Len(report.packages) - 1) :
          StrLess(report.packages[i + 1].name, report.packages[i].name)
    /\ \E i \in 1..(Len(report.packages) - 1) :
          /\ report.packages[i].name = report.packages[i + 1].name
          /\ report.packages[i].version_spec # report.packages[i + 1].version_spec

\* C9: a parser that catches an exception returns an empty sequence, so the
\* failing manifest contributes no dependency, and get_all_dependencies
\* returns what the parsers of the manifests returned, in order.
C9_FailedManifestContributesNothing ==
    /\ \A i \in DOMAIN parsed : parsed[i].raised => parsed[i].deps = <<>>
    /\ (pc = "get_all_dependencies" /\ pending = <<>>) =>
          all_deps = Concat([i \in DOMAIN parsed |-> parsed[i].deps])

\* C10: the process ends with exit code 1 when the project path does not
\* exist or writing the output file fails, and with exit code 0 when the
\* report is produced.
C10_ExitCode ==
    pc = "exited" =>
        exit_code = (IF ~world.path_exists \/ destination = "error" THEN 1 ELSE 0)

\* generate_report has been called in this run
GenerateReportCalled ==
    pc \in {"get_all_dependencies", "format", "write", "returned", "exited"} /\ world.path_exists

\* C11: outside legacy mode, for every combination of --all-deps,
\* --runtime-only, --include-dev and --include-optional, generate_report is
\* called with (include_dev, include_optional, runtime_only) = (true, true,
\* false) when --all-deps is given, also together with --runtime-only;
\* (false, false, true) when --runtime-only is given without --all-deps; and
\* (the --include-dev flag, the --include-optional flag, false) otherwise.
\* runtime_only is never true together with an include flag.
C11_FlagResolution ==
    (GenerateReportCalled /\ ~args.legacy_mode) =>
        LET passed == <<report_args.include_dev, report_args.include_optional,
                        report_args.runtime_only>>
        IN /\ args.all_deps => passed = <<TRUE, TRUE, FALSE>>
           /\ (args.runtime_only /\ ~args.all_deps) => passed = <<FALSE, FALSE, TRUE>>
           /\ (~args.runtime_only /\ ~args.all_deps)
                 => passed = <<args.include_dev, args.include_optional, FALSE>>
           /\ ~(report_args.runtime_only
                 /\ (report_args.include_dev \/ report_args.include_optional))

C11_Witness ==
    /\ GenerateReportCalled
    /\ ~args.legacy_mode
    /\ args.all_deps /\ args.runtime_only /\ ~args.include_dev
    /\ report_args.include_dev /\ ~report_args.runtime_only

\* the four sources of the project name in precedence order, each a
\* sequence holding the name it offers, empty when it is absent or unusable;
\* the name field of pyproject.toml is the one of its [project] table or,
\* without it, the one of its [tool.poetry] table
NameSources ==
    LET files == world.files
        decoded == /\ "pyproject.toml" \in DOMAIN files
                   /\ world.toml_available
                   /\ files["pyproject.toml"].decodable
        data == files["pyproject.toml"].data
    IN <<IF report_args.project_name # <<>> THEN <<report_args.project_name>> ELSE <<>>,
         IF decoded /\ "name" \in data.project_keys THEN <<data.project_name>>
         ELSE IF decoded /\ "name" \in data.poetry_keys THEN <<data.poetry_name>>
         ELSE <<>>,
         IF /\ "setup.py" \in DOMAIN files
            /\ files["setup.py"].readable
            /\ files["setup.py"].has_name
         THEN <<files["setup.py"].name>> ELSE <<>>,
         <<world.dir_name>> >>

\* C12: the project name of the report is the explicit override when one is
\* given; else the name field of pyproject.toml when that file exists, can
\* be decoded and has the field; else the first quoted name= assignment of
\* setup.py; else the name of the root directory. A lower-precedence source
\* is used only when every higher one is absent or unusable.
C12_ProjectNamePrecedence ==
    ReportReturned =>
        \E i \in DOMAIN NameSources :
            /\ NameSources[i] # <<>>
            /\ \A j \in 1..(i - 1) : NameSources[j] = <<>>
            /\ report.project = NameSources[i][1]

C12_Witness ==
    /\ ReportReturned
    /\ "pyproject.toml" \in DOMAIN world.files
    /\ "name" \in world.files["pyproject.toml"].data.project_keys
    /\ ~world.toml_available
    /\ NameSources[1] = <<>> /\ NameSources[2] = <<>> /\ NameSources[3] # <<>>
    /\ report.project = S("setup-name")

\* a project holding requirements.txt with the line requests==2.31.0 and
\* requirements-dev.txt with the line pytest, and nothing else
ScenarioFiles ==
    ("requirements.txt" :> Txt(<<S("requests==2.31.0")>>, NoFailure))
    @@ ("requirements-dev.txt" :> Txt(<<S("pytest")>>, NoFailure))

\* the name and group of every package record, in report order
NamesAndGroups(packages) ==
    [i \in DOMAIN packages |-> <<packages[i].name, packages[i].dependency_type>>]

\* C13: for that project, the report generated with no flag set holds
\* exactly one package, requests in the runtime group (total 1, runtime 1,
\* dev 0), and the report generated with include_dev set holds two
\* packages, with runtime count 1 and dev count 1.
C13_ScenarioRuntimeAndDev ==
    (/\ ReportReturned
     /\ world.files = ScenarioFiles
     /\ ~report_args.runtime_only
     /\ report_args.exclude_patterns = <<>>) =>
        LET summary == report.summary
            counts == <<summary.total_packages, summary.runtime_packages, summary.dev_packages>>
        IN /\ (~report_args.include_dev /\ ~report_args.include_optional) =>
                 /\ NamesAndGroups(report.packages) = << <<S("requests"), "runtime">> >>
                 /\ report.packages[1].version_spec = S("==2.31.0")
                 /\ counts = <<1, 1, 0>>
           /\ report_args.include_dev =>
                 /\ NamesAndGroups(report.packages)
                       = << <<S("pytest"), "dev">>, <<S("requests"), "runtime">> >>
                 /\ counts = <<2, 1, 1>>

C13_Witness ==
    /\ ReportReturned
    /\ world.files = ScenarioFiles
    /\ report_args.include_dev /\ ~report_args.include_optional /\ ~report_args.runtime_only
    /\ Len(report.packages) = 2

\* the declarations the parsers returned in this run, as (manifest,
\* position) pairs
Declarations ==
    UNION {{<<i, j>> : j \in DOMAIN parsed[i].deps} : i \in DOMAIN parsed}

DeclaredName(d) == parsed[d[1]].deps[d[2]].name

\* the declarations of a name that pass the filter of this run
PassingDeclarations(name) ==
    {d \in Declarations :
        /\ DeclaredName(d) = name
        /\ FilterKeep(parsed[d[1]].deps[d[2]], report_args.include_dev,
                      report_args.include_optional, report_args.runtime_only,
                      report_args.exclude_patterns)}

DeclaredNames == {DeclaredName(d) : d \in Declarations}

\* C14: no deduplication is performed: a name declared in k of the parsed
\* manifests, or k times in one manifest, with all k declarations passing
\* the filter, has k records in report.packages, and total_packages counts
\* every passing declaration of every name.
C14_NoDeduplication ==
    ReportReturned =>
        /\ \A name \in DeclaredNames :
              CountOf(report.packages, LAMBDA p : p.name = name)
                  = Cardinality(PassingDeclarations(name))
        /\ report.summary.total_packages
              = Cardinality(UNION {PassingDeclarations(name) : name \in DeclaredNames})

C14_Witness ==
    /\ ReportReturned
    /\ \E i \in DOMAIN parsed : \E j, k \in DOMAIN parsed[i].deps :
          /\ j < k
          /\ parsed[i].deps[j].name = parsed[i].deps[k].name
          /\ Cardinality(PassingDeclarations(parsed[i].deps[j].name)) = 3
          /\ CountOf(report.packages, LAMBDA p : p.name = parsed[i].deps[j].name) = 3

NameLength(text) ==
    CHOOSE k \in 0..Len(text) :
        /\ \A j \in 1..k : text[j] \in NameChars
        /\ k < Len(text) => text[k + 1] \notin NameChars

\* the group the claim infers from a filename
GroupOfFilename(filename) ==
    IF \E word \in {S("dev"), S("test"), S("doc")} : Contains(StrLower(S(filename)), word)
    THEN "dev" ELSE "runtime"

\* the dependency the claim gives for a trimmed line
DependencyOfLine(text, filename) ==
    [name |-> SubSeq(text, 1, NameLength(text)),
     version_spec |-> Strip(SubSeq(text, NameLength(text) + 1, Len(text))),
     dep_type |-> GroupOfFilename(filename)]

\* after trimming the line is non-blank, is not a comment and does not
\* begin with the flag marker
IsRequirementLine(text) == text # <<>> /\ text[1] \notin {"#", "-"}

\* C16 as stated: parse_requirements_txt yields, in file order, exactly one
\* dependency for every line that after trimming is non-blank, does not
\* begin with # and does not begin with -, and none for any other line; its
\* name is the longest prefix of letters, digits, _, . and -, its
\* version_spec the trimmed remainder, its group dev when the lowercased
\* filename contains dev, test or doc, else runtime.
C16_OneDependencyPerLine ==
    pc = "returned" =>
        LET lines == fn_in.content.lines
        IN fn_out.deps =
              Concat([i \in DOMAIN lines |->
                         IF IsRequirementLine(Strip(lines[i]))
                         THEN <<DependencyOfLine(Strip(lines[i]), fn_in.filename)>>
                         ELSE <<>>])

\* C16, amended: the same, for the lines that moreover begin, after
\* trimming, with a letter, a digit, _ or . (a line that begins with any
\* other character yields no dependency).
C16_OneDependencyPerNamedLine ==
    pc = "returned" =>
        LET lines == fn_in.content.lines
        IN fn_out.deps =
              Concat([i \in DOMAIN lines |->
                         IF /\ IsRequirementLine(Strip(lines[i]))
                            /\ Strip(lines[i])[1] \in NameChars
                         THEN <<DependencyOfLine(Strip(lines[i]), fn_in.filename)>>
                         ELSE <<>>])

C16_Witness ==
    /\ pc = "returned"
    /\ fn_in.filename = "Docs-Requirements.txt"
    /\ fn_in.content.lines = <<S("-e ."), S(">=2.0"), S("Flask>=2.0 # web")>>
    /\ fn_out.deps = <<[name |-> S("Flask"), version_spec |-> S(">=2.0 # web"),
                        dep_type |-> "dev"]>>

\* the groups each report_type label names
GroupsNamedBy(label) ==
    IF label = "Runtime Dependencies (PyInstaller Bundled)" THEN {"runtime"}
    ELSE IF label = "All Dependencies (Runtime + Development + Optional)"
    THEN {"runtime", "dev", "optional"}
    ELSE IF label = "Runtime + Development Dependencies" THEN {"runtime", "dev"}
    ELSE IF label = "Runtime Dependencies" THEN {"runtime"}
    ELSE {}

\* C17: the report_type label is chosen with the precedence runtime_only,
\* then include_dev and include_optional, then include_dev, then the
\* default, and it names the groups the report contains: the group of every
\* package record is one the label names (only runtime under the two
\* runtime labels, only runtime or dev under Runtime + Development
\* Dependencies).
C17_LabelNamesGroups ==
    ReportReturned =>
        /\ report.report_type =
              (IF report_args.runtime_only
               THEN "Runtime Dependencies (PyInstaller Bundled)"
               ELSE IF report_args.include_dev /\ report_args.include_optional
               THEN "All Dependencies (Runtime + Development + Optional)"
               ELSE IF report_args.include_dev THEN "Runtime + Development Dependencies"
               ELSE "Runtime Dependencies")
        /\ \A i \in DOMAIN report.packages :
              report.packages[i].dependency_type \in GroupsNamedBy(report.report_type)

\* the manifest names report.dependency_files lists
ListedFiles == {report.dependency_files[i][2] : i \in DOMAIN report.dependency_files}

\* the manifest names a parser was called on in this run
ReadFiles == {parsed[i].file : i \in DOMAIN parsed}

\* a recognized name that get_all_dependencies hands to a parser
HasParser(name) == EndsWith(S(name), S(".txt")) \/ name \in {"setup.py", "pyproject.toml"}

AddedPatterns == {Chars("*"), Chars("s?x"), Chars("wheel")}

\* C19: filter_dependencies is idempotent and monotone in its flags. For
\* every dependency list and exclude-pattern list, filtering the result
\* again with the same arguments returns it unchanged; the runtime_only
\* result is a subsequence of the default-flags result; turning include_dev
\* or include_optional from false to true, with runtime_only false, only
\* adds elements; and adding an exclude pattern only removes elements.
C19_FilterIdempotentAndMonotone ==
    pc = "returned" =>
        LET D == fn_in.dependencies
            P == fn_in.exclude_patterns
        IN /\ FilterDependencies(fn_out, fn_in.include_dev, fn_in.include_optional,
                                 fn_in.runtime_only, P) = fn_out
           /\ fn_in.runtime_only =>
                 IsSubsequence(fn_out, FilterDependencies(D, FALSE, FALSE, FALSE, P))
           /\ (~fn_in.runtime_only /\ ~fn_in.include_dev) =>
                 IsSubsequence(fn_out,
                               FilterDependencies(D, TRUE, fn_in.include_optional, FALSE, P))
           /\ (~fn_in.runtime_only /\ ~fn_in.include_optional) =>
                 IsSubsequence(fn_out,
                               FilterDependencies(D, fn_in.include_dev, TRUE, FALSE, P))
           /\ \A added \in AddedPatterns :
                 IsSubsequence(FilterDependencies(D, fn_in.include_dev,
                                                  fn_in.include_optional,
                                                  fn_in.runtime_only, Append(P, added)),
                               fn_out)

C19_Witness ==
    /\ pc = "returned"
    /\ ~fn_in.runtime_only /\ ~fn_in.include_dev /\ fn_in.include_optional
    /\ fn_in.exclude_patterns # <<>>
    /\ Len(fn_out) = 1
    /\ Len(FilterDependencies(fn_in.dependencies, TRUE, TRUE, FALSE,
                               fn_in.exclude_patterns)) = 2
    /\ FilterDependencies(fn_in.dependencies, FALSE, TRUE, FALSE,
                          Append(fn_in.exclude_patterns, Chars("s?x"))) = <<>>

====
